---- MODULE Spec2Model ----
(***************************************************************************)
(* Model of systemLorenz1963.ipynb: the notebook's code cells executed top *)
(* to bottom (an uncaught exception in a cell stops the execution).        *)
(*                                                                         *)
(* Numbers.  The notebook computes in IEEE-754 binary floating point.  The *)
(* model keeps the IEEE rules (round to nearest, ties to even, after every *)
(* single operation; overflow to +-inf; inf-inf and 0*inf give nan; every  *)
(* comparison with nan is false) at a reduced width: PrecBits significand  *)
(* bits, smallest spacing 2^-FracBits, largest spacing 2^(MaxExp-FracBits).*)
(* A finite number v is held as the integer v * 2^FracBits.  Signed zero   *)
(* is not distinguished (-0.0 == 0.0 in Python).                           *)
(*                                                                         *)
(* Python index i of an array is position i+1 of the TLA+ sequence.        *)
(***************************************************************************)
EXTENDS Integers, Sequences, FiniteSets, TLC

\* ---- bounds of the model ------------------------------------------------
PrecBits == 6
FracBits == 6
MaxExp   == 7
MaxN     == 4
MaxLen   == 5
MaxVal   == 5

\* ---- floating point -----------------------------------------------------
RECURSIVE Pow2(_)
Pow2(n) == IF n <= 0 THEN 1 ELSE 2 * Pow2(n - 1)

MaxFin == (Pow2(PrecBits) - 1) * Pow2(MaxExp)
PInf   == MaxFin + 1
NInf   == 0 - PInf
NaN    == MaxFin + 2

IsNaN(a) == a = NaN
IsInf(a) == a = PInf \/ a = NInf
IsFin(a) == a >= 0 - MaxFin /\ a <= MaxFin

Abs(n) == IF n < 0 THEN 0 - n ELSE n
Sgn(n) == IF n < 0 THEN 0 - 1 ELSE IF n > 0 THEN 1 ELSE 0

\* the single element of a singleton set.  Binding a value through
\*   x \in {e}   makes TLC evaluate e once, however often x is used; the
\* operators below bind their arguments this way.
Only(S) == CHOOSE r \in S : TRUE

RECURSIVE UlpExp(_, _, _)
UlpExp(a, den, k) ==
    IF a < Pow2(PrecBits) * Pow2(k) * den THEN k ELSE UlpExp(a, den, k + 1)

\* sg * (a/d rounded to a whole number, ties to even) * u, or sg * inf
RoundAt(sg, a, d, u) ==
    LET q   == a \div d
        r   == a % d
        qr  == IF 2 * r > d \/ (2 * r = d /\ q % 2 = 1) THEN q + 1 ELSE q
    IN  IF qr * u > MaxFin THEN sg * PInf ELSE sg * qr * u

\* the float nearest to the exact value num/(den * 2^FracBits), den > 0
Round(num, den) ==
    Only({ RoundAt(Sgn(num), Abs(num), den * Pow2(k), Pow2(k))
           : k \in {UlpExp(Abs(num), den, 0)} })

FromInt(n) == Round(n * Pow2(FracBits), 1)

FNeg(a) == IF IsNaN(a) THEN NaN ELSE 0 - a

AddV(a, b) ==
    IF IsNaN(a) \/ IsNaN(b) THEN NaN
    ELSE IF IsInf(a) THEN (IF IsInf(b) /\ b # a THEN NaN ELSE a)
    ELSE IF IsInf(b) THEN b
    ELSE Round(a + b, 1)

MulV(a, b) ==
    IF IsNaN(a) \/ IsNaN(b) THEN NaN
    ELSE IF IsInf(a) \/ IsInf(b)
         THEN (IF a = 0 \/ b = 0 THEN NaN ELSE Sgn(a) * Sgn(b) * PInf)
    ELSE Round(a * b, Pow2(FracBits))

DivV(a, b) ==
    IF IsNaN(a) THEN NaN
    ELSE IF IsInf(a) THEN Sgn(a) * Sgn(b) * PInf
    ELSE Round(a * Sgn(b) * Pow2(FracBits), Abs(b))

\* a + b
FAdd(a, b) == Only({ AddV(x, y) : x \in {a}, y \in {b} })

\* a - b
FSub(a, b) == FAdd(a, FNeg(b))

\* a * b
FMul(a, b) == Only({ MulV(x, y) : x \in {a}, y \in {b} })

\* a / b for a finite divisor b # 0 (every divisor in the notebook is a
\* nonzero literal, or the step of np.arange after its zero check)
FDiv(a, b) == Only({ DivV(x, y) : x \in {a}, y \in {b} })

FGt(a, b) == ~IsNaN(a) /\ ~IsNaN(b) /\ a > b

\* math.ceil of a finite float, as an integer
Ceil(a) == 0 - ((0 - a) \div Pow2(FracBits))

\* ---- Python sequences ---------------------------------------------------
InRange(a, i) == i >= 0 - Len(a) /\ i < Len(a)
Pos(a, i)     == IF i < 0 THEN Len(a) + i + 1 ELSE i + 1
Zeros(n)      == [i \in 1..n |-> 0]
Unbound       == <<>>

\* ---- the notebook's functions -------------------------------------------
\* def systemLorenz1963(xx,yy,zz,params)
systemLorenz1963(xx, yy, zz, params) ==
    LET sigmavalue == params[1]
        rvalue     == params[2]
        bvalue     == params[3]
        dxdt == FAdd(FMul(FMul(FromInt(0 - 1), sigmavalue), xx),
                     FMul(sigmavalue, yy))
        dydt == FSub(FMul(FSub(rvalue, zz), xx), yy)
        dzdt == FSub(FMul(xx, yy), FMul(bvalue, zz))
    IN  <<dxdt, dydt, dzdt>>

\* the call func(xx,yy,zz,params) of a function passed by name
Call(func, xx, yy, zz, params) ==
    CASE func = "systemLorenz1963" -> systemLorenz1963(xx, yy, zz, params)

\* k1 + 2*k2 + 2*k3 + k4, left to right
WeightedSum(k1, k2, k3, k4) ==
    FAdd(FAdd(FAdd(k1, FMul(FromInt(2), k2)), FMul(FromInt(2), k3)), k4)

\* v + step*k/2
HalfArg(v, step, k) == FAdd(v, FDiv(FMul(step, k), FromInt(2)))

\* func at S + c*k (componentwise), for c = step/2 (halved) or c = step
Stage(xx, yy, zz, step, k, halved, func, params) ==
    IF halved
    THEN Call(func, HalfArg(xx, step, k[1]), HalfArg(yy, step, k[2]),
              HalfArg(zz, step, k[3]), params)
    ELSE Call(func, FAdd(xx, FMul(step, k[1])), FAdd(yy, FMul(step, k[2])),
              FAdd(zz, FMul(step, k[3])), params)

\* 1/6*(k1+2*k2+2*k3+k4)*step, left to right
Increment(k1, k2, k3, k4, step) ==
    FMul(FMul(FDiv(FromInt(1), FromInt(6)), WeightedSum(k1, k2, k3, k4)), step)

\* rk4_xyz with the final "*step" left out
rk4_xyz_nostep(xx, yy, zz, step, func, params) ==
    Only({ Only({ Only({ Only({
        << Increment(k1[1], k2[1], k3[1], k4[1], FromInt(1)),
           Increment(k1[2], k2[2], k3[2], k4[2], FromInt(1)),
           Increment(k1[3], k2[3], k3[3], k4[3], FromInt(1)) >>
        : k4 \in {Stage(xx, yy, zz, step, k3, FALSE, func, params)} })
        : k3 \in {Stage(xx, yy, zz, step, k2, TRUE, func, params)} })
        : k2 \in {Stage(xx, yy, zz, step, k1, TRUE, func, params)} })
        : k1 \in {Call(func, xx, yy, zz, params)} })

\* def rk4_xyz(xx,yy,zz,step,func,params)
rk4_xyz(xx, yy, zz, step, func, params) ==
    Only({ Only({ Only({ Only({
        << Increment(k1[1], k2[1], k3[1], k4[1], step),
           Increment(k1[2], k2[2], k3[2], k4[2], step),
           Increment(k1[3], k2[3], k3[3], k4[3], step) >>
        : k4 \in {Stage(xx, yy, zz, step, k3, FALSE, func, params)} })
        : k3 \in {Stage(xx, yy, zz, step, k2, TRUE, func, params)} })
        : k2 \in {Stage(xx, yy, zz, step, k1, TRUE, func, params)} })
        : k1 \in {Call(func, xx, yy, zz, params)} })

\* IsRelMax with the right-hand comparison >= instead of >
IsRelMaxLeftOnly(z, i) ==
    /\ FGt(z[Pos(z, i)], z[Pos(z, i - 1)])
    /\ ~FGt(z[Pos(z, i + 1)], z[Pos(z, i)])

\* IsRelMax with both comparisons >= instead of >
IsRelMaxPlateau(z, i) ==
    /\ ~FGt(z[Pos(z, i - 1)], z[Pos(z, i)])
    /\ ~FGt(z[Pos(z, i + 1)], z[Pos(z, i)])

\* the condition of the relMaxZ comprehension at Python index i:
\*   zvalues[ii]>zvalues[ii-1] and zvalues[ii]>zvalues[ii+1]
IsRelMax(z, i) ==
    /\ FGt(z[Pos(z, i)], z[Pos(z, i - 1)])
    /\ FGt(z[Pos(z, i)], z[Pos(z, i + 1)])

\* MaxRange as range(ntot)
MaxRangeAll(n) == 0 .. (n - 1)

\* range(1, ntot-1)
MaxRange(n) == 1 .. (n - 2)

\* the Python indices the condition reads at index i; the second comparison
\* is evaluated only when the first holds ("and")
CondReads(z, i) ==
    IF InRange(z, i) /\ InRange(z, i - 1) /\ FGt(z[Pos(z, i)], z[Pos(z, i - 1)])
    THEN {i, i - 1, i + 1} ELSE {i, i - 1}

MaxReads(z, n) == UNION {CondReads(z, i) : i \in MaxRange(n)}

\* a read in the comprehension raises IndexError
MaxRaises(z, n) ==
    \E i \in MaxRange(n) : \E j \in CondReads(z, i) : ~InRange(z, j)

\* [zvalues[ii] for ii in range(1,ntot-1) if cond], built in iteration order
RECURSIVE Comprehension(_, _)
Comprehension(z, S) ==
    IF S = {} THEN <<>>
    ELSE LET i == CHOOSE m \in S : \A o \in S : m <= o
         IN  (IF IsRelMax(z, i) THEN <<z[Pos(z, i)]>> ELSE <<>>)
             \o Comprehension(z, S \ {i})

\* LoopCount as range(ntot)
LoopCountAll(n) == n

\* range(ntot-1): the number of loop iterations
LoopCount(n) == n - 1

\* LoopSource reading the entry being written
LoopSourceNext(i) == i + 1

\* the index the loop body reads: xvalues[ii]
LoopSource(i) == i

\* LoopTarget writing the entry just read
LoopTargetSame(i) == i

\* LoopTarget writing entry 0 every time
LoopTargetFirst(i) == 0

\* the index the loop body writes: xvalues[ii+1]
LoopTarget(i) == i + 1

\* LoopParams with sigma and smallr exchanged
LoopParamsSwapped(s, r, b) == <<r, s, b>>

\* the params list the loop passes: [sigma,smallr,smallb]
LoopParams(s, r, b) == <<s, r, b>>

\* ---- configurations ------------------------------------------------------
\* The notebook's literals (deltat = 0.01, ntot = 6113, ...) are one
\* configuration; the cells below assign values drawn from these sets, which
\* fit the reduced float width and include the cases step < 0, step = 0,
\* ntot < 1 and a state at the largest finite float.
Half   == FDiv(FromInt(1), FromInt(2))
Steps  == {FNeg(Half), 0, Half}
Counts == (0 - 1) .. MaxN
ParamSets  == { <<FromInt(1), FromInt(2), FromInt(1)>>,
                <<FromInt(2), FromInt(4), Half>>,
                <<FromInt(10), FromInt(28), FDiv(FromInt(8), FromInt(3))>> }
InitStates == { <<0, Half, 0>>, <<FromInt(1), FromInt(1), FromInt(2)>>,
                <<FromInt(0 - 1), FromInt(2), FromInt(1)>>,
                <<MaxFin, MaxFin, 0>> }

\* ---- state ---------------------------------------------------------------
VARIABLES pc, exc, deltat, ntot, timing, sigma, smallr, smallb,
          initx, inity, initz, xvalues, yvalues, zvalues, ii, relMaxZ,
          written, calls, zreads

vars == <<pc, exc, deltat, ntot, timing, sigma, smallr, smallb,
          initx, inity, initz, xvalues, yvalues, zvalues, ii, relMaxZ,
          written, calls, zreads>>

\* pc: the cell to execute next; exc: the exception that stopped the run.
\* A name no cell has bound yet holds 0 (a number) or <<>> (an array, a list);
\* no cell reads a name before the cell that binds it has run.
\* ii: the value range(ntot-1) yields next.  written[i+1]: how often entry i
\* of the histories has been assigned since allocation; calls: the number of
\* rk4_xyz calls; zreads: the indices of zvalues the extraction has read.
Init ==
    /\ pc = "TimeStepping" /\ exc = ""
    /\ deltat = 0 /\ ntot = 0 /\ timing = Unbound
    /\ sigma = 0 /\ smallr = 0 /\ smallb = 0
    /\ initx = 0 /\ inity = 0 /\ initz = 0
    /\ xvalues = Unbound /\ yvalues = Unbound /\ zvalues = Unbound
    /\ ii = 0 /\ relMaxZ = Unbound
    /\ written = <<>> /\ calls = 0 /\ zreads = {}

\* np.arange(0, stop, step): its length is ceil((stop-0)/step), at least 0
ArangeLen(stop, step) ==
    LET q == FDiv(FSub(stop, 0), step)
    IN  IF Ceil(q) < 0 THEN 0 ELSE Ceil(q)

Arange(stop, step) ==
    [i \in 1..ArangeLen(stop, step) |-> FAdd(0, FMul(FromInt(i - 1), step))]

\* cell "Time stepping"
TimeStepping ==
    /\ pc = "TimeStepping"
    /\ \E h \in Steps, n \in Counts :
         /\ deltat' = h
         /\ ntot' = n
         /\ IF h = 0
            THEN /\ pc' = "error" /\ exc' = "ZeroDivisionError"
                 /\ timing' = timing
            ELSE /\ pc' = "Parameters" /\ exc' = exc
                 /\ timing' = Arange(FMul(FromInt(n), h), h)
    /\ UNCHANGED <<sigma, smallr, smallb, initx, inity, initz,
                   xvalues, yvalues, zvalues, ii, relMaxZ,
                   written, calls, zreads>>

\* cell "Parameters"
Parameters ==
    /\ pc = "Parameters"
    /\ \E p \in ParamSets :
         sigma' = p[1] /\ smallr' = p[2] /\ smallb' = p[3]
    /\ pc' = "InitialConditions"
    /\ UNCHANGED <<exc, deltat, ntot, timing, initx, inity, initz,
                   xvalues, yvalues, zvalues, ii, relMaxZ,
                   written, calls, zreads>>

\* cell "Initial conditions"
InitialConditions ==
    /\ pc = "InitialConditions"
    /\ \E s \in InitStates :
         /\ initx' = s[1] /\ inity' = s[2] /\ initz' = s[3]
         /\ IF ntot < 0
            THEN \* np.zeros(ntot) raises
                 /\ pc' = "error" /\ exc' = "ValueError"
                 /\ UNCHANGED <<xvalues, yvalues, zvalues, written>>
            ELSE IF ntot = 0
            THEN \* xvalues[0] = initx raises
                 /\ pc' = "error" /\ exc' = "IndexError"
                 /\ xvalues' = Zeros(0) /\ yvalues' = Zeros(0)
                 /\ zvalues' = Zeros(0) /\ written' = Zeros(0)
            ELSE /\ pc' = "Loop" /\ exc' = exc
                 /\ xvalues' = [Zeros(ntot) EXCEPT ![1] = s[1]]
                 /\ yvalues' = [Zeros(ntot) EXCEPT ![1] = s[2]]
                 /\ zvalues' = [Zeros(ntot) EXCEPT ![1] = s[3]]
                 /\ written' = [Zeros(ntot) EXCEPT ![1] = 1]
    /\ UNCHANGED <<deltat, ntot, timing, sigma, smallr, smallb, ii, relMaxZ,
                   calls, zreads>>

\* cell "Loop": one iteration of   for ii in range(ntot-1)
LoopStep ==
    /\ pc = "Loop"
    /\ ii < LoopCount(ntot)
    /\ LET src == LoopSource(ii)
           dst == LoopTarget(ii)
       IN  IF ~InRange(xvalues, src) \/ ~InRange(xvalues, dst)
           THEN /\ pc' = "error" /\ exc' = "IndexError"
                /\ calls' = IF InRange(xvalues, src) THEN calls + 1 ELSE calls
                /\ UNCHANGED <<xvalues, yvalues, zvalues, written>>
           ELSE LET s == Pos(xvalues, src)
                    d == Pos(xvalues, dst)
                    step == rk4_xyz(xvalues[s], yvalues[s], zvalues[s], deltat,
                                    "systemLorenz1963",
                                    LoopParams(sigma, smallr, smallb))
                IN  /\ xvalues' = [xvalues EXCEPT ![d] = FAdd(xvalues[s], step[1])]
                    /\ yvalues' = [yvalues EXCEPT ![d] = FAdd(yvalues[s], step[2])]
                    /\ zvalues' = [zvalues EXCEPT ![d] = FAdd(zvalues[s], step[3])]
                    /\ written' = [written EXCEPT ![d] = @ + 1]
                    /\ calls' = calls + 1
                    /\ pc' = pc /\ exc' = exc
    /\ ii' = ii + 1
    /\ UNCHANGED <<deltat, ntot, timing, sigma, smallr, smallb,
                   initx, inity, initz, relMaxZ, zreads>>

\* cell "Loop": range(ntot-1) is exhausted
LoopExit ==
    /\ pc = "Loop"
    /\ ~(ii < LoopCount(ntot))
    /\ pc' = "GetMaxima"
    /\ UNCHANGED <<exc, deltat, ntot, timing, sigma, smallr, smallb,
                   initx, inity, initz, xvalues, yvalues, zvalues, ii, relMaxZ,
                   written, calls, zreads>>

\* cell "Get relative maxima in Z"
GetMaxima ==
    /\ pc = "GetMaxima"
    /\ zreads' = MaxReads(zvalues, ntot)
    /\ IF MaxRaises(zvalues, ntot)
       THEN /\ pc' = "error" /\ exc' = "IndexError"
            /\ relMaxZ' = relMaxZ
       ELSE /\ pc' = "done" /\ exc' = exc
            /\ relMaxZ' = Comprehension(zvalues, MaxRange(ntot))
    /\ UNCHANGED <<deltat, ntot, timing, sigma, smallr, smallb,
                   initx, inity, initz, xvalues, yvalues, zvalues, ii,
                   written, calls>>

Next ==
    \/ TimeStepping
    \/ Parameters
    \/ InitialConditions
    \/ LoopStep
    \/ LoopExit
    \/ GetMaxima

Spec == Init /\ [][Next]_vars

\* the interpreter runs the cells to completion
FairSpec == Spec /\ WF_vars(Next)

\* ---- the loop cell on a given configuration (step 0 included) ------------
InitLoop ==
    /\ pc = "Loop" /\ exc = "" /\ timing = <<>>
    /\ deltat \in Steps
    /\ ntot \in 1..MaxN
    /\ \E p \in ParamSets : sigma = p[1] /\ smallr = p[2] /\ smallb = p[3]
    /\ \E s \in InitStates :
         /\ initx = s[1] /\ inity = s[2] /\ initz = s[3]
         /\ xvalues = [Zeros(ntot) EXCEPT ![1] = s[1]]
         /\ yvalues = [Zeros(ntot) EXCEPT ![1] = s[2]]
         /\ zvalues = [Zeros(ntot) EXCEPT ![1] = s[3]]
    /\ written = [Zeros(ntot) EXCEPT ![1] = 1]
    /\ ii = 0 /\ relMaxZ = Unbound /\ calls = 0 /\ zreads = {}

SpecLoop == (Init \/ InitLoop) /\ [][Next]_vars

\* ---- the extraction cell on a given sequence -----------------------------
MaxVals == {FromInt(v) : v \in 1..MaxVal}

InitMax ==
    /\ pc = "GetMaxima" /\ exc = "" /\ timing = <<>>
    /\ deltat = Half
    /\ ntot \in 0..MaxLen
    /\ sigma = FromInt(1) /\ smallr = FromInt(2) /\ smallb = FromInt(1)
    /\ zvalues \in [1..ntot -> MaxVals]
    /\ xvalues = Zeros(ntot) /\ yvalues = Zeros(ntot)
    /\ initx = 0 /\ inity = 0
    /\ initz = IF ntot = 0 THEN 0 ELSE zvalues[1]
    /\ written = [i \in 1..ntot |-> 1]
    /\ ii = 0 /\ relMaxZ = Unbound /\ calls = 0 /\ zreads = {}

SpecMax == (Init \/ InitMax) /\ [][Next]_vars

\* ---- shorthands for the properties ---------------------------------------
Entry(j)   == <<xvalues[j], yvalues[j], zvalues[j]>>
InitState  == <<initx, inity, initz>>
StateAdd(s, d) == <<FAdd(s[1], d[1]), FAdd(s[2], d[2]), FAdd(s[3], d[3])>>
AfterInit  == pc \in {"Loop", "GetMaxima", "done"}
Floats(q)  == [j \in 1..Len(q) |-> FromInt(q[j])]

\* ---- properties -----------------------------------------------------------

\* C1: once the loop has completed, entry 0 is the configured initial state
\* and every later entry is its predecessor plus the increment rk4_xyz
\* returns for that predecessor, the one step size deltat, the Lorenz field
\* and the one parameter triple (sigma, smallr, smallb).
C1_Recurrence ==
    pc \in {"GetMaxima", "done"} =>
        /\ ntot >= 1
        /\ Entry(1) = InitState
        /\ \A j \in 2..ntot :
             Entry(j) = StateAdd(Entry(j - 1),
                                 rk4_xyz(xvalues[j - 1], yvalues[j - 1],
                                         zvalues[j - 1], deltat,
                                         "systemLorenz1963",
                                         <<sigma, smallr, smallb>>))

C1_Witness ==
    /\ pc = "done" /\ ntot >= 3
    /\ \A j \in 1..ntot : IsFin(xvalues[j]) /\ IsFin(yvalues[j]) /\ IsFin(zvalues[j])
    /\ Entry(2) # Entry(1) /\ Entry(3) # Entry(2)
    /\ sigma # smallr

\* C2: from the end of the initial-conditions cell on, the three histories
\* have exactly ntot entries each and their entries at index 0 are the
\* configured initial (X, Y, Z).
C2_LengthAndStart ==
    AfterInit =>
        /\ Len(xvalues) = ntot /\ Len(yvalues) = ntot /\ Len(zvalues) = ntot
        /\ Entry(1) = InitState

C2_Witness ==
    /\ pc = "done" /\ ntot >= 3 /\ calls = ntot - 1
    /\ Entry(2) # InitState
    /\ Entry(1) = InitState

\* C3: a configuration with step size <= 0 or step count < 1 never executes
\* an RK4 step and never computes an entry beyond the initial one.
C3_InvalidNeverIntegrates ==
    (pc # "TimeStepping" /\ (deltat <= 0 \/ ntot < 1)) =>
        /\ calls = 0
        /\ \A j \in 2..Len(written) : written[j] = 0

\* the indices the strict-local-maximum condition of the claim selects
StrictMaxima ==
    {i \in 1..(ntot - 2) :
        /\ FGt(zvalues[i + 1], zvalues[i])
        /\ FGt(zvalues[i + 1], zvalues[i + 2])}

\* C4: the extraction returns exactly the values at the interior indices that
\* are strictly greater than both neighbours, in ascending index order;
\* [1,3,2,5,4] gives [3,5], [1,2,3] gives [], [5,1,5] gives [].
C4_ExactMaxima ==
    pc = "done" =>
        /\ Len(relMaxZ) = Cardinality(StrictMaxima)
        /\ \A i \in StrictMaxima :
             relMaxZ[Cardinality({j \in StrictMaxima : j <= i})] = zvalues[i + 1]
        /\ (zvalues = Floats(<<1, 3, 2, 5, 4>>) => relMaxZ = Floats(<<3, 5>>))
        /\ (zvalues = Floats(<<1, 2, 3>>) => relMaxZ = <<>>)
        /\ (zvalues = Floats(<<5, 1, 5>>) => relMaxZ = <<>>)

C4_Witness ==
    /\ pc = "done"
    /\ zvalues = Floats(<<1, 3, 2, 5, 4>>)
    /\ relMaxZ = Floats(<<3, 5>>)

\* C5: for ntot in {0, 1, 2} the extraction completes without an exception,
\* returns the empty list and reads no index outside 0..ntot-1; for ntot = 1
\* the trajectory is the initial state alone.
C5_ShortInput ==
    [][(pc = "GetMaxima" /\ ntot <= 2) =>
          /\ pc' = "done"
          /\ relMaxZ' = <<>>
          /\ zreads' \subseteq 0..(ntot - 1)
          /\ (ntot = 1 => /\ Len(xvalues') = 1 /\ Len(yvalues') = 1
                          /\ Len(zvalues') = 1
                          /\ <<xvalues'[1], yvalues'[1], zvalues'[1]>> = InitState)
      ]_vars

C5_Witness ==
    /\ pc = "done" /\ ntot = 1 /\ calls = 0
    /\ relMaxZ = <<>> /\ Entry(1) = InitState /\ timing # <<>>

\* C6: a loop step changes only entry ii+1 of the histories and leaves the
\* parameters, the step size and the step count alone; an entry that has been
\* written is changed by no later loop step and not by the extraction.
C6_WriteOnce ==
    [][AfterInit =>
          /\ (calls' # calls =>
                /\ \A j \in 1..ntot : j # ii + 2 => Entry(j)' = Entry(j)
                /\ <<sigma, smallr, smallb, deltat, ntot>>'
                     = <<sigma, smallr, smallb, deltat, ntot>>)
          /\ \A j \in 1..ntot : written[j] >= 1 => Entry(j)' = Entry(j)
          /\ Len(xvalues') = ntot /\ Len(yvalues') = ntot /\ Len(zvalues') = ntot
      ]_vars

C6_Witness ==
    /\ pc = "done" /\ ntot >= 3 /\ calls >= 2
    /\ zreads # {}
    /\ Entry(3) # Entry(2)

\* C7: entries are written in ascending index order: when the loop is about
\* to run iteration ii, exactly the entries 0..ii have been written, once
\* each, the entry it reads is written and the entry it writes is not; the
\* extraction has read nothing before the last entry is written.
C7_Sequential ==
    /\ pc = "Loop" =>
         /\ ii <= LoopCount(ntot)
         /\ calls = ii
         /\ written = [j \in 1..ntot |-> IF j <= ii + 1 THEN 1 ELSE 0]
         /\ (ii < LoopCount(ntot) =>
               /\ written[LoopSource(ii) + 1] = 1
               /\ written[LoopTarget(ii) + 1] = 0
               /\ LoopTarget(ii) = LoopSource(ii) + 1)
         /\ zreads = {}
    /\ pc \in {"GetMaxima", "done"} => \A j \in 1..ntot : written[j] = 1
    /\ pc = "GetMaxima" => zreads = {}

C7_Witness ==
    /\ pc = "done" /\ ntot >= 3 /\ calls = ntot - 1
    /\ zreads # {}

\* C8: a run that has reached the loop terminates, after exactly ntot-1
\* rk4_xyz calls, with every entry 0..ntot-1 written exactly once.
C8_Terminates ==
    (pc = "Loop") ~>
        (/\ pc = "done"
         /\ calls = ntot - 1
         /\ \A j \in 1..ntot : written[j] = 1)

C8_Witness ==
    /\ pc = "done" /\ ntot = 1 + calls /\ calls >= 2 /\ exc = ""

\* the increment rk4_xyz returns for entry j of the histories
IncrementAt(j) ==
    rk4_xyz(xvalues[j], yvalues[j], zvalues[j], deltat, "systemLorenz1963",
            <<sigma, smallr, smallb>>)

Overflows(s) ==
    LET k == systemLorenz1963(s[1], s[2], s[3], <<sigma, smallr, smallb>>)
    IN  \E c \in 1..3 : ~IsFin(WeightedSum(k[c], k[c], k[c], k[c]))

Selected == {i \in MaxRange(ntot) : IsRelMax(zvalues, i)}

\* C10: no two adjacent indices are both selected, the result has at most
\* floor((ntot-1)/2) elements, and each element is strictly greater than the
\* values at two or more other indices of the Z history.
C10_NoAdjacent ==
    pc = "done" =>
        /\ \A i \in Selected : (i + 1) \notin Selected
        /\ Len(relMaxZ) = Cardinality(Selected)
        /\ (ntot >= 1 => Len(relMaxZ) <= (ntot - 1) \div 2)
        /\ \A k \in 1..Len(relMaxZ) :
             Cardinality({j \in 1..ntot : FGt(relMaxZ[k], zvalues[j])}) >= 2

C10_Witness ==
    /\ pc = "done" /\ ntot = 5
    /\ Len(relMaxZ) = 2
    /\ zvalues[2] = zvalues[4]

====
